---- MODULE Spec2Model ----
(***************************************************************************)
(* Model of the registration service: the in-memory store (MemStore), the  *)
(* validator (PlayValidator), the orchestration (Service.Register), the    *)
(* logging decorator (RegistratorWithLog) and the HTTP adapter             *)
(* (RegistrationHandler.ServeHTTP).                                        *)
(*                                                                         *)
(* Three specifications share the definitions:                             *)
(*   Spec      requests handled one at a time against MemStore;            *)
(*   SpecRepo  the same, against a Repository whose Unique or Create may   *)
(*             fail with a storage error (the Repository interface);       *)
(*   SpecConc  concurrent Register calls on one MemStore, one step per     *)
(*             access to the shared slice.                                 *)
(***************************************************************************)
EXTENDS Integers, Sequences, FiniteSets, TLC

VARIABLES
    Users,      \* MemStore.Users: the stored users, in order
    last,       \* what the most recent request did (observation)
    prev,       \* the Register call just before it, when made with the same form (observation)
    pc,         \* SpecConc: each worker's position inside Register
    local       \* SpecConc: each worker's form, locals and result

vars == <<Users, last, prev, pc, local>>

(***************************************************************************)
(* Inputs                                                                  *)
(***************************************************************************)

\* Number of concurrent requests in SpecConc.
NumProcs == 2

\* Form tags `gte=3,lte=16` on Password and PasswordConfirmation.
MinPasswordLen == 3
MaxPasswordLen == 16

\* http.StatusBadRequest, StatusUnprocessableEntity, StatusInternalServerError
\* and the status of a response written without WriteHeader.
StatusOK == 200
StatusBadRequest == 400
StatusUnprocessableEntity == 422
StatusInternalServerError == 500

\* Sample email strings: empty, not an address, and two addresses.
Emails == {"", "bad", "a@b.com", "c@d.org"}

\* The validator library's verdict on the sample strings (tag `email`).
IsEmail(e) == e \in {"a@b.com", "c@d.org"}

\* Sample passwords of length 2, 3, 3 and 17.
Passwords == {"ab", "abc", "xyz", "abcdefghijklmnopq"}

\* entities.Form
Forms == [Email : Emails, Password : Passwords, PasswordConfirmation : Passwords]

ZeroForm == [Email |-> "", Password |-> "", PasswordConfirmation |-> ""]

\* Request bodies: one that is not JSON, and the JSON objects carrying the
\* three fields under their JSON names.
Bodies ==
    {[malformed |-> TRUE, email |-> "", password |-> "", password_confirmation |-> ""]}
    \cup
    [malformed : {FALSE}, email : Emails, password : Passwords,
     password_confirmation : Passwords]

\* json.NewDecoder(r.Body).Decode(&f)
Decode(body) ==
    IF body.malformed
    THEN [ok |-> FALSE, f |-> ZeroForm]
    ELSE [ok |-> TRUE,
          f  |-> [Email                |-> body.email,
                  Password             |-> body.password,
                  PasswordConfirmation |-> body.password_confirmation]]

(***************************************************************************)
(* Errors                                                                  *)
(***************************************************************************)

passwordMismatch == "password mismatch"
emailExists == "email exists"

NoMap == [k \in {} |-> ""]

\* An error value is the sequence of its layers, outermost first: the
\* wrappers errors.Wrap added, then the original error. Each layer has its
\* dynamic type (kind), its message and, for ValidationErrors, its map.
\* The nil error has no layer.
Nil == <<>>

\* errors.New("email already exists"): the sentinel the store returns.
ErrEmailExists ==
    <<[kind |-> "errorString", msg |-> "email already exists", map |-> NoMap]>>

\* A storage failure of a Repository other than MemStore.
ErrStorage ==
    <<[kind |-> "storageError", msg |-> "storage unavailable", map |-> NoMap]>>

\* A ValidationErrors value returned as an error.
AsError(validations) ==
    <<[kind |-> "ValidationErrors", msg |-> "you have validation errors",
       map |-> validations]>>

\* errors.Wrap: nil stays nil, otherwise a wrapper is put around the error.
Wrap(err, message) ==
    IF err = Nil
    THEN Nil
    ELSE <<[kind |-> "withStack", msg |-> message, map |-> NoMap]>> \o err

\* Mutant of Cause: the error is inspected as it is, wrappers included.
CauseNoUnwrap(err) == err

\* errors.Cause: follows the wrappers down to the error that has no cause.
RECURSIVE Cause(_)
Cause(err) ==
    IF Len(err) > 1 THEN Cause(Tail(err)) ELSE err

\* The dynamic type a type switch on the error sees ("nil" for nil).
Kind(err) == IF err = Nil THEN "nil" ELSE Head(err).kind

\* The map of an error that is a ValidationErrors, the empty map otherwise.
MapOf(err) == IF Kind(err) = "ValidationErrors" THEN Head(err).map ELSE NoMap

(***************************************************************************)
(* MemStore                                                                *)
(***************************************************************************)

\* Mutant of Unique: the scan stops one short of the last user.
UniqueSkipLast(users, email) ==
    IF \E i \in 1..(Len(users) - 1) : users[i].Email = email
    THEN ErrEmailExists
    ELSE Nil

\* MemStore.Unique: scans the users for the email.
Unique(users, email) ==
    IF \E i \in 1..Len(users) : users[i].Email = email
    THEN ErrEmailExists
    ELSE Nil

\* The user MemStore.Create builds, its id taken from the length it read.
NewUser(length, f) ==
    [ID |-> length + 1, Email |-> f.Email, Password |-> f.Password]

\* Mutant of AppendUser: a conditional insert, refusing an email already stored.
AppendUserIfAbsent(users, u) ==
    IF \E i \in 1..Len(users) : users[i].Email = u.Email
    THEN [users |-> users, err |-> ErrEmailExists]
    ELSE [users |-> Append(users, u), err |-> Nil]

\* s.Users = append(s.Users, u); return &u, nil
AppendUser(users, u) == [users |-> Append(users, u), err |-> Nil]

\* MemStore.Create: appends the new user and returns it; never fails.
Create(users, f) ==
    LET u == NewUser(Len(users), f)
        a == AppendUser(users, u)
    IN  [users |-> a.users, user |-> u, err |-> a.err]

NoUser == [ID |-> 0, Email |-> "", Password |-> ""]

(***************************************************************************)
(* Repository interface: MemStore, or a store whose call fails             *)
(***************************************************************************)

Faults == {"none", "unique", "create"}

RepositoryUnique(users, email, fault) ==
    IF fault = "unique" THEN ErrStorage ELSE Unique(users, email)

RepositoryCreate(users, f, fault) ==
    IF fault = "create"
    THEN [users |-> users, user |-> NoUser, err |-> ErrStorage]
    ELSE Create(users, f)

(***************************************************************************)
(* PlayValidator                                                           *)
(***************************************************************************)

\* Mutant of EmailTag: the `email` tag is missing, only `required` is checked.
EmailTagRequiredOnly(e) == IF e = "" THEN "required" ELSE ""

\* The tag the Email field fails, "" when it passes. Tags `required,email`
\* are tried in order and only the first failure of a field is reported.
EmailTag(e) ==
    IF e = "" THEN "required"
    ELSE IF ~IsEmail(e) THEN "email"
    ELSE ""

\* The tag a password field fails, "" when it passes (tags `gte=3,lte=16`).
LenTag(p) ==
    IF Len(p) < MinPasswordLen THEN "gte"
    ELSE IF Len(p) > MaxPasswordLen THEN "lte"
    ELSE ""

\* v.Validator.Struct(f): the failed tags, one per failing field, in field order.
Struct(f) ==
    SelectSeq(<<EmailTag(f.Email), LenTag(f.Password), LenTag(f.PasswordConfirmation)>>,
              LAMBDA t : t # "")

\* fmt.Sprintf("%s is invalid", tag)
InvalidMsg(tag) ==
    CASE tag = "required" -> "required is invalid"
      [] tag = "email"    -> "email is invalid"
      [] tag = "gte"      -> "gte is invalid"
      [] tag = "lte"      -> "lte is invalid"

\* validations[key] = message
Put(validations, key, message) ==
    [k \in (DOMAIN validations) \cup {key} |->
        IF k = key THEN message ELSE validations[k]]

\* for _, v := range vs { validations[v.Tag()] = "<tag> is invalid" }
RECURSIVE RecordTags(_, _)
RecordTags(validations, vs) ==
    IF vs = <<>> THEN validations
    ELSE RecordTags(Put(validations, Head(vs), InvalidMsg(Head(vs))), Tail(vs))

\* Mutant of RecordMismatch: the passwords are compared only when no
\* structural violation was recorded.
RecordMismatchElse(validations, f) ==
    IF validations = NoMap /\ f.Password # f.PasswordConfirmation
    THEN Put(validations, "password", passwordMismatch)
    ELSE validations

\* if f.Password != f.PasswordConfirmation { validations["password"] = ... }
RecordMismatch(validations, f) ==
    IF f.Password # f.PasswordConfirmation
    THEN Put(validations, "password", passwordMismatch)
    ELSE validations

\* Mutant of Validate: fails fast, returning the structural violations
\* without running the later checks.
ValidateFailFast(users, f, fault) ==
    LET v1   == RecordTags(NoMap, Struct(f))
        v2   == RecordMismatch(v1, f)
        uerr == RepositoryUnique(users, f.Email, fault)
        ran  == <<"Struct", "Match", "Unique">>
    IN  IF v1 # NoMap
        THEN [err |-> AsError(v1), trace |-> <<"Struct">>]
        ELSE IF uerr # Nil /\ uerr # ErrEmailExists
        THEN [err |-> Wrap(uerr, "repository unique"), trace |-> ran]
        ELSE LET v3 == IF uerr = ErrEmailExists
                       THEN Put(v2, "email", emailExists)
                       ELSE v2
             IN  IF Cardinality(DOMAIN v3) > 0
                 THEN [err |-> AsError(v3), trace |-> ran]
                 ELSE [err |-> Nil, trace |-> ran]

\* Mutant of Validate: every error of Unique is taken for the email-exists
\* signal (the comparison with ErrEmailExists is missing).
ValidateAnyErrorExists(users, f, fault) ==
    LET v1   == RecordTags(NoMap, Struct(f))
        v2   == RecordMismatch(v1, f)
        uerr == RepositoryUnique(users, f.Email, fault)
        ran  == <<"Struct", "Match", "Unique">>
        v3   == IF uerr # Nil THEN Put(v2, "email", emailExists) ELSE v2
    IN  IF Cardinality(DOMAIN v3) > 0
        THEN [err |-> AsError(v3), trace |-> ran]
        ELSE [err |-> Nil, trace |-> ran]

\* PlayValidator.Validate. The result carries the error and the checks that
\* ran, in order.
Validate(users, f, fault) ==
    LET v1   == RecordTags(NoMap, Struct(f))
        v2   == RecordMismatch(v1, f)
        uerr == RepositoryUnique(users, f.Email, fault)
        ran  == <<"Struct", "Match", "Unique">>
    IN  IF uerr # Nil /\ uerr # ErrEmailExists
        THEN [err |-> Wrap(uerr, "repository unique"), trace |-> ran]
        ELSE LET v3 == IF uerr = ErrEmailExists
                       THEN Put(v2, "email", emailExists)
                       ELSE v2
             IN  IF Cardinality(DOMAIN v3) > 0
                 THEN [err |-> AsError(v3), trace |-> ran]
                 ELSE [err |-> Nil, trace |-> ran]

(***************************************************************************)
(* Service.Register                                                        *)
(***************************************************************************)

\* Mutant of Register: the user is created before the form is validated.
RegisterCreateFirst(users, f, fault) ==
    LET c == RepositoryCreate(users, f, fault)
        v == Validate(users, f, fault)
    IN  IF v.err # Nil
        THEN [users |-> c.users, user |-> NoUser,
              err |-> Wrap(v.err, "validator validate"),
              trace |-> <<"Create">> \o v.trace]
        ELSE [users |-> c.users, user |-> c.user, err |-> Wrap(c.err, "repository create"),
              trace |-> <<"Create">> \o v.trace]

\* The result carries the store after the call, the returned user and error,
\* and the calls made on the validator and the repository, in order.
Register(users, f, fault) ==
    LET v == Validate(users, f, fault)
    IN  IF v.err # Nil
        THEN [users |-> users, user |-> NoUser,
              err |-> Wrap(v.err, "validator validate"), trace |-> v.trace]
        ELSE LET c == RepositoryCreate(users, f, fault)
             IN  IF c.err # Nil
                 THEN [users |-> c.users, user |-> NoUser,
                       err |-> Wrap(c.err, "repository create"),
                       trace |-> Append(v.trace, "Create")]
                 ELSE [users |-> c.users, user |-> c.user, err |-> Nil,
                       trace |-> Append(v.trace, "Create")]

(***************************************************************************)
(* RegistratorWithLog                                                      *)
(***************************************************************************)

\* Mutant of ResultSink: the deferred function does not see the returned
\* error (results not named) and always writes to the standard sink.
ResultSinkStd(err) == "stdlog"

\* The sink the deferred function writes the results to.
ResultSink(err) == IF err # Nil THEN "errlog" ELSE "stdlog"

\* RegistratorWithLog.Register: logs the call, calls the base Registrator,
\* and logs the results from the deferred function. `log` is the entries
\* written, in order, each with its sink; `base` is the number of calls made
\* on the wrapped Registrator.
RegisterWithLog(users, f, fault) ==
    LET before == [sink |-> "stdlog", text |-> "calling Register with params",
                   f |-> f, user |-> NoUser, err |-> Nil]
        r      == Register(users, f, fault)
        after  == [sink |-> ResultSink(r.err), text |-> "Register return results",
                   f |-> ZeroForm, user |-> r.user, err |-> r.err]
    IN  [users |-> r.users, user |-> r.user, err |-> r.err, trace |-> r.trace,
         base |-> 1, log |-> <<before, after>>]

(***************************************************************************)
(* RegistrationHandler.ServeHTTP                                           *)
(***************************************************************************)

NoCall ==
    [users |-> <<>>, user |-> NoUser, err |-> Nil, trace |-> <<>>,
     base |-> 0, log |-> <<>>]

EmptyBody == [kind |-> "empty", user |-> NoUser, map |-> NoMap]

\* The response to a failed Register: the switch on errors.Cause(err).
ErrorResponse(err) ==
    LET v == Cause(err)
    IN  IF Kind(v) = "ValidationErrors"
        THEN [status |-> StatusUnprocessableEntity,
              body   |-> [kind |-> "violations", user |-> NoUser, map |-> MapOf(v)]]
        ELSE [status |-> StatusInternalServerError, body |-> EmptyBody]

\* The whole handler: the response, and the Register call it made (NoCall
\* when decoding failed).
Respond(users, body, fault) ==
    LET d == Decode(body)
    IN  IF ~d.ok
        THEN [resp |-> [status |-> StatusBadRequest, body |-> EmptyBody],
              decoded |-> FALSE, f |-> ZeroForm, call |-> NoCall, users |-> users]
        ELSE LET r == RegisterWithLog(users, d.f, fault)
             IN  [resp |-> IF r.err # Nil
                           THEN ErrorResponse(r.err)
                           ELSE [status |-> StatusOK,
                                 body   |-> [kind |-> "user", user |-> r.user,
                                             map |-> NoMap]],
                  decoded |-> TRUE, f |-> d.f, call |-> r, users |-> r.users]

(***************************************************************************)
(* State machine: requests one at a time                                   *)
(***************************************************************************)

Procs == 1..NumProcs

NoLocal ==
    [f |-> ZeroForm, verr |-> Nil, len |-> 0, base |-> <<>>, user |-> NoUser,
     err |-> Nil]

NoRequest ==
    [body |-> CHOOSE b \in Bodies : b.malformed, fault |-> "none", before |-> <<>>,
     handled |-> FALSE,
     resp |-> [status |-> 0, body |-> EmptyBody],
     decoded |-> FALSE, f |-> ZeroForm, call |-> NoCall]

NoPrev == [called |-> FALSE, f |-> ZeroForm, err |-> Nil, users |-> <<>>]

Init ==
    /\ Users = <<>>
    /\ last = NoRequest
    /\ prev = NoPrev
    /\ pc = [p \in Procs |-> "idle"]
    /\ local = [p \in Procs |-> NoLocal]

\* One request handled from start to end by ServeHTTP.
ServeHTTP(body, fault) ==
    \E out \in {Respond(Users, body, fault)} :
        /\ Users' = out.users
        /\ last' = [body |-> body, fault |-> fault, before |-> Users,
                    handled |-> TRUE, resp |-> out.resp, decoded |-> out.decoded,
                    f |-> out.f, call |-> out.call]
        /\ prev' = IF last.handled /\ last.decoded /\ out.decoded /\ last.f = out.f
                   THEN [called |-> TRUE, f |-> last.f, err |-> last.call.err,
                         users |-> last.before]
                   ELSE NoPrev
        /\ UNCHANGED <<pc, local>>

Next == \E body \in Bodies : ServeHTTP(body, "none")

Spec == Init /\ [][Next]_vars

NextRepo == \E body \in Bodies, fault \in Faults : ServeHTTP(body, fault)

SpecRepo == Init /\ [][NextRepo]_vars

(***************************************************************************)
(* State machine: concurrent Register calls on one MemStore                *)
(*                                                                         *)
(* net/http runs each request on its own goroutine and MemStore has no     *)
(* lock, so the calls interleave at every access to s.Users: the scan of   *)
(* Unique, the len read for the id, the read of the slice by append, and   *)
(* the assignment of the appended slice.                                   *)
(***************************************************************************)

\* The forms the concurrent requests carry.
ConcForms ==
    {f \in Forms : {f.Password, f.PasswordConfirmation} \subseteq {"abc", "xyz"}}

\* Register up to the end of Validate: the structural and password checks
\* touch only the form, Unique scans the shared slice.
ValidateStep(p, f) ==
    /\ pc[p] = "idle"
    /\ LET v == Validate(Users, f, "none")
       IN  /\ local' = [local EXCEPT ![p] =
                          [NoLocal EXCEPT !.f = f, !.verr = v.err,
                                          !.err = Wrap(v.err, "validator validate")]]
           /\ pc' = [pc EXCEPT ![p] = IF v.err # Nil THEN "done" ELSE "createID"]
    /\ UNCHANGED <<Users, last, prev>>

\* Create: ID: len(s.Users) + 1
CreateID(p) ==
    /\ pc[p] = "createID"
    /\ local' = [local EXCEPT ![p].len = Len(Users)]
    /\ pc' = [pc EXCEPT ![p] = "appendRead"]
    /\ UNCHANGED <<Users, last, prev>>

\* Create: append reads s.Users
AppendRead(p) ==
    /\ pc[p] = "appendRead"
    /\ local' = [local EXCEPT ![p].base = Users]
    /\ pc' = [pc EXCEPT ![p] = "appendWrite"]
    /\ UNCHANGED <<Users, last, prev>>

\* Create: s.Users = <the appended slice>; Register returns the user.
AppendWrite(p) ==
    /\ pc[p] = "appendWrite"
    /\ LET u == NewUser(local[p].len, local[p].f)
           a == AppendUser(local[p].base, u)
       IN  /\ Users' = a.users
           /\ local' = [local EXCEPT ![p].user = IF a.err = Nil THEN u ELSE NoUser,
                                     ![p].err = Wrap(a.err, "repository create")]
    /\ pc' = [pc EXCEPT ![p] = "done"]
    /\ UNCHANGED <<last, prev>>

NextConc ==
    \E p \in Procs :
        \/ \E f \in ConcForms : ValidateStep(p, f)
        \/ CreateID(p)
        \/ AppendRead(p)
        \/ AppendWrite(p)

SpecConc == Init /\ [][NextConc]_vars

(***************************************************************************)
(* Properties                                                              *)
(***************************************************************************)

InTrace(trace, step) == \E i \in 1..Len(trace) : trace[i] = step

StoredEmails(users) == {users[i].Email : i \in 1..Len(users)}

\* The original error under the wrappers: the innermost layer.
Root(err) == IF err = Nil THEN Nil ELSE <<err[Len(err)]>>

\* The last request reached Register (decoding succeeded).
Registered == last.handled /\ last.decoded

\* The violations of the last Register call (empty when it returned none).
Violations == MapOf(Root(last.call.err))

\* C1: a form whose email is already in the store is rejected with a
\* ValidationErrors in which "email" maps to "email exists", Create is
\* not called and the store is unchanged; a successful registration
\* repeated at once is answered 422 with exactly {"email": "email exists"}.
C1_ExistingEmailRejected ==
    /\ (Registered /\ last.f.Email \in StoredEmails(last.before)) =>
          /\ Kind(Root(last.call.err)) = "ValidationErrors"
          /\ "email" \in DOMAIN Violations
          /\ Violations["email"] = emailExists
          /\ ~InTrace(last.call.trace, "Create")
          /\ Users = last.before
    /\ (Registered /\ prev.called /\ prev.err = Nil) =>
          /\ last.resp.status = StatusUnprocessableEntity
          /\ last.resp.body.kind = "violations"
          /\ last.resp.body.map = [k \in {"email"} |-> emailExists]

C1_Witness ==
    /\ Registered /\ prev.called /\ prev.err = Nil
    /\ last.f.Email \in StoredEmails(last.before)
    /\ last.resp.status = StatusUnprocessableEntity

\* C2: in every reachable state of the store, users created from forms
\* with distinct emails have the ids 1..N in creation order: the k-th
\* stored user has id k, so the ids are unique.
C2_IdsSequential ==
    (\A i, j \in 1..Len(Users) : i # j => Users[i].Email # Users[j].Email) =>
        (\A k \in 1..Len(Users) : Users[k].ID = k)

\* The tags of the Email field: the keys a violation of it is recorded under.
EmailKeys == {"required", "email"}

\* C4: a form whose email is not a syntactically valid address (the empty
\* one included) is rejected with a ValidationErrors holding an email-related
\* key, Create is not called and the store is unchanged.
C4_InvalidEmailRejected ==
    (Registered /\ last.f.Email \notin {"a@b.com", "c@d.org"}) =>
        /\ Kind(Root(last.call.err)) = "ValidationErrors"
        /\ DOMAIN Violations \cap EmailKeys # {}
        /\ ~InTrace(last.call.trace, "Create")
        /\ Users = last.before

C4_Witness ==
    /\ Registered /\ last.f.Email = ""
    /\ last.f.Password = "abc" /\ last.f.PasswordConfirmation = "abc"
    /\ Len(last.before) = 2
    /\ DOMAIN Violations = {"required"}

\* C5: when password and confirmation differ, whatever their lengths, the
\* email and the store, the result is a ValidationErrors in which "password"
\* maps to the mismatch message.
C5_MismatchRecorded ==
    (Registered /\ last.f.Password # last.f.PasswordConfirmation) =>
        /\ Kind(Root(last.call.err)) = "ValidationErrors"
        /\ "password" \in DOMAIN Violations
        /\ Violations["password"] = passwordMismatch

C5_Witness ==
    /\ Registered
    /\ last.f.Password = "ab" /\ last.f.PasswordConfirmation = "abcdefghijklmnopq"
    /\ last.f.Email \in StoredEmails(last.before)
    /\ Violations["password"] = passwordMismatch
    /\ Violations["email"] = emailExists

\* C3: every handled request ends in exactly one outcome: 400 with an empty
\* body iff decoding failed (Register is then not called); 422 with the
\* violations as body iff Register failed and the cause of its wrapped error
\* is a ValidationErrors; 500 with an empty body iff Register failed with
\* another cause; 200 with the created user iff Register succeeded.
C3_OneOutcome ==
    last.handled =>
      LET r     == last.resp
          err   == last.call.err
          cause == Root(err)
      IN  /\ r.status \in {StatusOK, StatusBadRequest, StatusUnprocessableEntity,
                           StatusInternalServerError}
          /\ (r.status = StatusBadRequest) <=> ~last.decoded
          /\ ~last.decoded => (r.body = EmptyBody /\ last.call.base = 0)
          /\ last.decoded => last.call.base = 1
          /\ (last.decoded /\ err # Nil) => Kind(err) = "withStack"
          /\ (r.status = StatusUnprocessableEntity) <=>
                (last.decoded /\ err # Nil /\ Kind(cause) = "ValidationErrors")
          /\ (r.status = StatusUnprocessableEntity) =>
                (r.body.kind = "violations" /\ r.body.map = Head(cause).map)
          /\ (r.status = StatusInternalServerError) <=>
                (last.decoded /\ err # Nil /\ Kind(cause) # "ValidationErrors")
          /\ (r.status = StatusInternalServerError) => r.body = EmptyBody
          /\ (r.status = StatusOK) <=> (last.decoded /\ err = Nil)
          /\ (r.status = StatusOK) =>
                (r.body.kind = "user" /\ r.body.user = last.call.user
                 /\ r.body.user = Users[Len(Users)])

C3_Witness ==
    /\ Registered
    /\ Len(last.call.err) = 2
    /\ Kind(Root(last.call.err)) = "ValidationErrors"
    /\ last.resp.status = StatusUnprocessableEntity
    /\ last.resp.body.map = [k \in {"password"} |-> passwordMismatch]

\* C6: when Register is called twice in a row with the same invalid form,
\* both calls return equal errors and the store is, after each call, what it
\* was before the first.
C6_RejectionIdempotent ==
    (Registered /\ prev.called /\ prev.f = last.f
       /\ Kind(Root(prev.err)) = "ValidationErrors") =>
        /\ last.call.err = prev.err
        /\ last.before = prev.users
        /\ Users = prev.users
        /\ NewUser(Len(Users), last.f).ID = NewUser(Len(prev.users), last.f).ID

C6_Witness ==
    /\ Registered /\ prev.called /\ prev.f = last.f
    /\ Kind(Root(prev.err)) = "ValidationErrors"
    /\ last.f.Email = "bad"
    /\ Len(prev.users) = 1
    /\ last.call.err = prev.err

\* A structural rule is violated by the form (stated on the form alone).
StructViolated(f) ==
    \/ f.Email \notin {"a@b.com", "c@d.org"}
    \/ Len(f.Password) < 3 \/ Len(f.Password) > 16
    \/ Len(f.PasswordConfirmation) < 3 \/ Len(f.PasswordConfirmation) > 16

\* C7: Validate runs the structural checks, the password comparison and
\* Unique, in that order, on every call; the returned ValidationErrors has an
\* entry for each step that found a violation; Validate returns ok exactly when
\* no step found one, so a returned ValidationErrors is never empty.
C7_AllChecksRun ==
    Registered =>
      LET f == last.f
          m == Violations
      IN  /\ Len(last.call.trace) >= 3
          /\ SubSeq(last.call.trace, 1, 3) = <<"Struct", "Match", "Unique">>
          /\ StructViolated(f) => DOMAIN m \cap {"required", "email", "gte", "lte"} # {}
          /\ (f.Email = "") => "required" \in DOMAIN m
          /\ (f.Email = "bad") => "email" \in DOMAIN m
          /\ (Len(f.Password) < 3 \/ Len(f.PasswordConfirmation) < 3) =>
                "gte" \in DOMAIN m
          /\ (Len(f.Password) > 16 \/ Len(f.PasswordConfirmation) > 16) =>
                "lte" \in DOMAIN m
          /\ f.Password # f.PasswordConfirmation => "password" \in DOMAIN m
          /\ f.Email \in StoredEmails(last.before) => "email" \in DOMAIN m
          /\ (last.call.err = Nil) <=>
                ~(\/ StructViolated(f)
                  \/ f.Password # f.PasswordConfirmation
                  \/ f.Email \in StoredEmails(last.before))
          /\ last.call.err # Nil =>
                (Kind(Root(last.call.err)) = "ValidationErrors" /\ DOMAIN m # {})

C7_Witness ==
    /\ Registered
    /\ last.f = [Email |-> "bad", Password |-> "ab", PasswordConfirmation |-> "abc"]
    /\ DOMAIN Violations = {"email", "gte", "password"}
    /\ last.resp.status = StatusUnprocessableEntity

\* C8: when Unique fails with an error other than the email-exists signal,
\* Validate returns that failure, wrapped, and no ValidationErrors, even when
\* violations were already recorded; Create is not called and the response is
\* 500 with an empty body. The email-exists signal is never the cause of the
\* error Register returns: it becomes the "email" entry of a ValidationErrors.
C8_UniqueFailure ==
    Registered =>
      /\ last.fault = "unique" =>
            /\ Root(last.call.err) = ErrStorage
            /\ last.call.trace = <<"Struct", "Match", "Unique">>
            /\ Users = last.before
            /\ last.resp = [status |-> StatusInternalServerError, body |-> EmptyBody]
      /\ Root(last.call.err) # ErrEmailExists
      /\ (last.fault # "unique" /\ last.f.Email \in StoredEmails(last.before)) =>
            /\ "email" \in DOMAIN Violations
            /\ Violations["email"] = emailExists
            /\ last.resp.status = StatusUnprocessableEntity

C8_Witness ==
    /\ Registered /\ last.fault = "unique"
    /\ last.f = [Email |-> "bad", Password |-> "ab", PasswordConfirmation |-> "abc"]
    /\ last.resp.status = StatusInternalServerError

\* C9: the decorator calls the wrapped Register once and returns its user
\* and error, with its effect on the store; it writes one entry to the
\* standard sink before the call and one entry after it, to the error sink
\* iff the returned error is not nil and to the standard sink otherwise.
C9_DecoratorObserves ==
    Registered =>
      LET r == last.call
          b == Register(last.before, last.f, last.fault)
      IN  /\ r.base = 1
          /\ r.user = b.user /\ r.err = b.err /\ r.users = b.users
          /\ Users = b.users
          /\ Len(r.log) = 2
          /\ r.log[1].sink = "stdlog" /\ r.log[1].f = last.f
          /\ r.log[2].user = b.user /\ r.log[2].err = b.err
          /\ (r.log[2].sink = "errlog") <=> (b.err # Nil)
          /\ (r.log[2].sink = "stdlog") <=> (b.err = Nil)

C9_Witness ==
    /\ Registered /\ last.fault = "create"
    /\ last.call.err # Nil
    /\ last.call.log[2].sink = "errlog"
    /\ InTrace(last.call.trace, "Create")

\* C10: nothing between Unique and Create reserves the email: a call that
\* passed validation always goes on to create its user and succeeds,
\* whatever the other calls stored in the meantime.
C10_NoReservation ==
    \A p \in Procs :
        /\ pc[p] = "createID" => ENABLED CreateID(p)
        /\ pc[p] = "appendRead" => ENABLED AppendRead(p)
        /\ pc[p] = "appendWrite" => ENABLED AppendWrite(p)
        /\ (pc[p] = "done" /\ local[p].verr = Nil) =>
              /\ local[p].err = Nil
              /\ local[p].user.Email = local[p].f.Email

\* Two calls for the same email both succeeded and the store holds two users
\* with that email.
C10_Witness ==
    \E p, q \in Procs :
        /\ p # q
        /\ pc[p] = "done" /\ pc[q] = "done"
        /\ local[p].err = Nil /\ local[q].err = Nil
        /\ local[p].verr = Nil /\ local[q].verr = Nil
        /\ local[p].f.Email = local[q].f.Email
        /\ Len(Users) = 2
        /\ Users[1].Email = Users[2].Email

====
